---- MODULE Spec2Model ----
(***************************************************************************)
(* Model of the categories dashboard: the category list page               *)
(* (src/src/components/CategoriesPage.tsx), the grouping done by the       *)
(* category detail page (src/src/components/CategoryDetailPage.tsx) and    *)
(* the API client (src/src/services/api.ts).                               *)
(*                                                                         *)
(* Texts are sequences of one-character strings.  An identifier is a pair  *)
(* <<representation, value>>, so that the number 1 and the string "1" are  *)
(* different values, as they are for === and Array.prototype.includes.     *)
(* An optional value (null / undefined) is the empty sequence or a         *)
(* sentinel of the same shape as the values it stands among.               *)
(***************************************************************************)
EXTENDS Integers, Sequences, FiniteSets, TLC

VARIABLES categories, loading, error, searchTerm, showAddForm,
          editingCategory, isSubmitting,
          expandedCategories, filterType, formData, net, lastOutput,
          authToken, detailPage

vars == <<categories, loading, error, searchTerm, showAddForm,
          editingCategory, isSubmitting,
          expandedCategories, filterType, formData, net, lastOutput,
          authToken, detailPage>>

---------------------------------------------------------------------------
(* Bounds of the model *)

MaxLen == 3

MaxTermLen == 2

MaxInFlight == 2

---------------------------------------------------------------------------
(* Values *)

Range(s) == {s[i] : i \in 1..Len(s)}

SeqsUpTo(S, n) == UNION {[1..k -> S] : k \in 0..n}

Num(n) == <<"number", n>>

Str(n) == <<"string", n>>

Undefined == <<"undefined">>

UndefinedIds == << <<"undefined", 0>> >>

DefaultCover == <<"d">>

Category(id, name, short, long, isSub, pids, cover) ==
  [id |-> id, categoryName |-> name, shortDescription |-> short,
   longDescription |-> long, isSubCategory |-> isSub,
   parentCategoryIds |-> pids, coverImage |-> cover]

---------------------------------------------------------------------------
(* String primitives of the JavaScript runtime used by the pages *)

LowerChar(c) == IF c = "A" THEN "a" ELSE IF c = "B" THEN "b" ELSE c

toLowerCase(s) == [i \in 1..Len(s) |-> LowerChar(s[i])]

includes(s, t) ==
  \E i \in 0..(Len(s) - Len(t)) : SubSeq(s, i + 1, i + Len(t)) = t

IsSpace(c) == c = " "

RECURSIVE trimStart(_)
trimStart(s) ==
  IF s # <<>> /\ IsSpace(Head(s)) THEN trimStart(Tail(s)) ELSE s

RECURSIVE trimEnd(_)
trimEnd(s) ==
  IF s # <<>> /\ IsSpace(s[Len(s)]) THEN trimEnd(SubSeq(s, 1, Len(s) - 1)) ELSE s

trim(s) == trimEnd(trimStart(s))

toString(id) == Str(id[2])

parseInt(id) == Num(id[2])

---------------------------------------------------------------------------
(* Derived views of the list page, recomputed on every render *)

matchesSearch(category, term) ==
  \/ includes(toLowerCase(category.categoryName), toLowerCase(term))
  \/ /\ category.shortDescription # Undefined
     /\ includes(toLowerCase(category.shortDescription), toLowerCase(term))
  \/ /\ category.longDescription # Undefined
     /\ includes(toLowerCase(category.longDescription), toLowerCase(term))

matchesFilter(category, ft) ==
  \/ ft = "all"
  \/ ft = "parent" /\ ~category.isSubCategory
  \/ ft = "sub" /\ category.isSubCategory

FilterCategoriesEither(cats, term, ft) ==
  SelectSeq(cats, LAMBDA c : matchesSearch(c, term) \/ matchesFilter(c, ft))

FilterCategories(cats, term, ft) ==
  SelectSeq(cats, LAMBDA c : matchesSearch(c, term) /\ matchesFilter(c, ft))

filteredCategoriesWhenIdle ==
  IF loading THEN <<>> ELSE FilterCategories(categories, searchTerm, filterType)

filteredCategories == FilterCategories(categories, searchTerm, filterType)

parentCategories == SelectSeq(filteredCategories, LAMBDA c : ~c.isSubCategory)

totalCategories == Len(categories)

parentCategoriesCountFiltered == Len(parentCategories)

parentCategoriesCount == Len(SelectSeq(categories, LAMBDA c : ~c.isSubCategory))

subCategoriesCount == Len(SelectSeq(categories, LAMBDA c : c.isSubCategory))

IsChildOfFirstParent(cat, parentId) ==
  /\ cat.isSubCategory
  /\ cat.parentCategoryIds # UndefinedIds
  /\ cat.parentCategoryIds # <<>>
  /\ parentId = cat.parentCategoryIds[1]

IsChildOf(cat, parentId) ==
  /\ cat.isSubCategory
  /\ cat.parentCategoryIds # UndefinedIds
  /\ parentId \in Range(cat.parentCategoryIds)

RECURSIVE OnePerLink(_, _)
OnePerLink(cats, parentId) ==
  IF cats = <<>> THEN <<>>
  ELSE LET c == Head(cats)
           links == IF c.isSubCategory /\ c.parentCategoryIds # UndefinedIds
                    THEN SelectSeq(c.parentCategoryIds, LAMBDA x : x = parentId)
                    ELSE <<>>
       IN  [k \in 1..Len(links) |-> c] \o OnePerLink(Tail(cats), parentId)

getSubCategoriesPerLink(parentId) == OnePerLink(filteredCategories, parentId)

getSubCategories(parentId) ==
  SelectSeq(filteredCategories, LAMBDA c : IsChildOf(c, parentId))

---------------------------------------------------------------------------
(* Grouping of the category detail page *)

MatchesRouteId(cat, categoryId) ==
  \/ toString(cat.id) = categoryId
  \/ cat.id = parseInt(categoryId)

FoundCategory(cats, categoryId) ==
  LET hits == {i \in 1..Len(cats) : MatchesRouteId(cats[i], categoryId)}
  IN  IF hits = {} THEN <<>>
      ELSE << cats[CHOOSE i \in hits : \A j \in hits : i <= j] >>

IsDetailChildOf(cat, foundCategoryId) ==
  /\ cat.isSubCategory
  /\ cat.parentCategoryIds # UndefinedIds
  /\ \E k \in 1..Len(cat.parentCategoryIds) :
        \/ cat.parentCategoryIds[k] = foundCategoryId
        \/ toString(cat.parentCategoryIds[k]) = toString(foundCategoryId)

subCats(cats, foundCategoryId) ==
  SelectSeq(cats, LAMBDA c : IsDetailChildOf(c, foundCategoryId))

---------------------------------------------------------------------------
(* Inputs of the list page: what the server sends and what the user types *)

P1 == Category(Num(1), <<"a">>, <<"a">>, <<>>, FALSE, <<>>, <<>>)

S2 == Category(Num(2), <<"a">>, <<"a">>, <<>>, TRUE, <<Num(1)>>, <<>>)

S3 == Category(Num(3), <<"a">>, <<"a">>, Undefined, TRUE, <<Num(1), Num(1)>>, <<>>)

ExampleList == <<P1, S2>>

ServerLists == {<<>>, ExampleList, <<S3, P1, S2>>}

TypedTexts == {<<" ">>, <<"a">>}

FormFields == {"categoryName", "shortDescription"}

EmptyForm ==
  [categoryName |-> <<>>, shortDescription |-> <<>>, longDescription |-> <<>>,
   parentCategoryIds |-> <<>>, isSubCategory |-> FALSE, coverImage |-> <<>>]

---------------------------------------------------------------------------
(* API client *)

Absent == -1

Envelope(ec, em, m, d) ==
  [errorCode |-> ec, errorMessage |-> em, message |-> m, data |-> d]

Http(tr, isOk, isJson, js, txt) ==
  [transport |-> tr, ok |-> isOk, json |-> isJson, body |-> js, text |-> txt]

NoBody == Envelope(Absent, "", "", <<>>)

(* fetch rejects with a TypeError whose message the platform chooses *)
FailedToFetch == "Failed to fetch"

FetchErrors ==
  {FailedToFetch, "NetworkError when attempting to fetch resource.", "Load failed"}

FetchRejected(message) == Http("failed", FALSE, FALSE, NoBody, message)

FetchFailed == FetchRejected(FailedToFetch)

(* what fetch can bring back for a create/update or a delete request: no
   response, or a JSON envelope with a 2xx or another status *)
WriteOutcomes ==
  {FetchFailed,
   Http("ok", TRUE, TRUE, Envelope(0, "", "", <<>>), ""),
   Http("ok", TRUE, TRUE, Envelope(1, "E", "", <<>>), ""),
   Http("ok", FALSE, TRUE, Envelope(1, "E", "M", <<>>), "")}

(* and for getAllCategories, whose envelope can carry a list *)
HttpOutcomes ==
  WriteOutcomes
  \cup {Http("ok", TRUE, TRUE, Envelope(0, "", "", <<L>>), "") : L \in ServerLists}

NetworkErrorMessage ==
  "Network error: Unable to connect to server. Please check your internet connection."

Return(v) == [kind |-> "return", value |-> v, message |-> ""]

Throw(m) == [kind |-> "throw", value |-> NoBody, message |-> m]

responseData(o) ==
  IF o.json THEN o.body ELSE Envelope(Absent, "", o.text, <<>>)

makeRequestGeneric(o) ==
  IF o.transport = "failed"
  THEN IF o.text = FailedToFetch THEN Throw(NetworkErrorMessage) ELSE Throw(o.text)
  ELSE IF o.ok THEN Return(responseData(o))
  ELSE Throw("Request failed")

makeRequest(o) ==
  IF o.transport = "failed"
  THEN IF o.text = FailedToFetch THEN Throw(NetworkErrorMessage) ELSE Throw(o.text)
  ELSE IF o.ok THEN Return(responseData(o))
  ELSE Throw(IF responseData(o).errorMessage # "" THEN responseData(o).errorMessage
             ELSE IF responseData(o).message # "" THEN responseData(o).message
             ELSE "Request failed")

(* localStorage.getItem('auth_token'): null, or the stored string *)
NoToken == <<>>

SessionToken == <<"t">>

StoredTokens == {NoToken, <<"">>, SessionToken}

defaultHeadersAlways ==
  [ContentType |-> "application/json", Accept |-> "application/json",
   Authorization |-> << "Bearer " \o (IF authToken = NoToken THEN "null" ELSE authToken[1]) >>]

defaultHeaders ==
  [ContentType |-> "application/json", Accept |-> "application/json",
   Authorization |-> IF authToken # NoToken /\ authToken[1] # ""
                     THEN << "Bearer " \o authToken[1] >> ELSE <<>>]

Request(method, endpoint, body, awaitedBy) ==
  [method |-> method, endpoint |-> endpoint, body |-> body, awaitedBy |-> awaitedBy,
   headers |-> defaultHeaders]

getAllCategories(awaitedBy) == Request("GET", "/category/getAll", <<>>, awaitedBy)

createUpdateCategory(data) ==
  Request("POST", "/category/createUpdateCategory", <<data>>, "handleSubmit")

deleteCategory(data) ==
  Request("DELETE", "/category/softDeleteOrDetach", <<data>>, "handleDeleteCategory")

Remove(s, i) == SubSeq(s, 1, i - 1) \o SubSeq(s, i + 1, Len(s))

---------------------------------------------------------------------------
(* The list page *)

(* the category detail page is a component of another route: while the
   list page is shown it is not mounted *)
NotMounted == <<>>

InitWith(token) ==
  /\ authToken = token
  /\ detailPage = NotMounted
  /\ categories = <<>>
  /\ loading = TRUE
  /\ error = ""
  /\ searchTerm = <<>>
  /\ showAddForm = FALSE
  /\ editingCategory = <<>>
  /\ isSubmitting = FALSE
  /\ expandedCategories = {}
  /\ filterType = "all"
  /\ formData = EmptyForm
  /\ net = <<getAllCategories("none")>>
  /\ lastOutput = ""

(* the dashboard is opened by a signed-in user *)
Init == InitWith(SessionToken)

ListVisible == ~showAddForm /\ ~loading /\ Len(categories) > 0

ParentRows == IF ListVisible THEN Range(parentCategories) ELSE {}

SubRows ==
  UNION {Range(getSubCategories(p.id)) :
           p \in {q \in ParentRows : q.id \in expandedCategories}}

Rows == ParentRows \cup SubRows

FailedToLoad == "Failed to load categories"

(* loadCategories up to its await: lines 49-51 *)
loadCategoriesStart(awaitedBy, rest) ==
  /\ loading' = TRUE
  /\ error' = ""
  /\ net' = Append(rest, getAllCategories(awaitedBy))

handleRefresh ==
  /\ ~showAddForm
  /\ ~loading
  /\ Len(net) < MaxInFlight
  /\ loadCategoriesStart("none", net)
  /\ UNCHANGED <<authToken, detailPage, categories, searchTerm, showAddForm, editingCategory,
                 isSubmitting, expandedCategories,
                 filterType, formData, lastOutput>>

resetForm ==
  /\ formData' = EmptyForm
  /\ editingCategory' = <<>>

CreatedAlert == "Category created successfully!"

DeletedAlert == "Category deleted successfully!"

LoadedDataOrEmpty(r) ==
  IF r.kind = "return" /\ r.value.errorCode = 0 /\ r.value.data # <<>>
  THEN r.value.data[1] ELSE <<>>

LoadedDataOrKept(r) ==
  IF r.kind = "throw" THEN categories
  ELSE IF r.value.data # <<>> THEN r.value.data[1] ELSE <<>>

LoadedData(r) ==
  IF r.kind = "return" /\ r.value.errorCode = 0 /\ r.value.data # <<>>
  THEN r.value.data[1] ELSE categories

LoadError(r) ==
  IF r.kind = "throw" THEN r.message
  ELSE IF r.value.errorCode = 0 /\ r.value.data # <<>> THEN error
  ELSE IF r.value.errorMessage # "" THEN r.value.errorMessage
  ELSE FailedToLoad

LoadLog(r) == IF r.kind = "throw" THEN "Error loading categories:" ELSE lastOutput

loadCategoriesResolveLatestOnly(i, o) ==
  /\ net[i].endpoint = "/category/getAll"
  /\ categories' = IF \E j \in (i + 1)..Len(net) : net[j].endpoint = "/category/getAll"
                   THEN categories ELSE LoadedData(makeRequest(o))
  /\ error' = LoadError(makeRequest(o))
  /\ loading' = FALSE
  /\ net' = Remove(net, i)
  /\ IF net[i].awaitedBy = "handleSubmit"
     THEN /\ showAddForm' = FALSE
          /\ resetForm
          /\ lastOutput' = CreatedAlert
          /\ isSubmitting' = FALSE
     ELSE IF net[i].awaitedBy = "handleDeleteCategory"
     THEN /\ lastOutput' = DeletedAlert
          /\ UNCHANGED <<showAddForm, formData, editingCategory, isSubmitting>>
     ELSE /\ lastOutput' = LoadLog(makeRequest(o))
          /\ UNCHANGED <<showAddForm, formData, editingCategory, isSubmitting>>
  /\ UNCHANGED <<authToken, detailPage, searchTerm, expandedCategories, filterType>>

(* loadCategories after its await (lines 53-63), then the handler awaiting it
   (lines 147-149 and 157, or line 182) *)
loadCategoriesResolve(i, o) ==
  /\ net[i].endpoint = "/category/getAll"
  /\ categories' = LoadedData(makeRequest(o))
  /\ error' = LoadError(makeRequest(o))
  /\ loading' = FALSE
  /\ net' = Remove(net, i)
  /\ IF net[i].awaitedBy = "handleSubmit"
     THEN /\ showAddForm' = FALSE
          /\ resetForm
          /\ lastOutput' = CreatedAlert
          /\ isSubmitting' = FALSE
     ELSE IF net[i].awaitedBy = "handleDeleteCategory"
     THEN /\ lastOutput' = DeletedAlert
          /\ UNCHANGED <<showAddForm, formData, editingCategory, isSubmitting>>
     ELSE /\ lastOutput' = LoadLog(makeRequest(o))
          /\ UNCHANGED <<showAddForm, formData, editingCategory, isSubmitting>>
  /\ UNCHANGED <<authToken, detailPage, searchTerm, expandedCategories, filterType>>

handleAddCategory ==
  /\ ~showAddForm
  /\ resetForm
  /\ showAddForm' = TRUE
  /\ UNCHANGED <<authToken, detailPage, categories, loading, error, searchTerm,
                 isSubmitting, expandedCategories, filterType, net, lastOutput>>

EditForm(category) ==
  [categoryName |-> category.categoryName,
   shortDescription |-> category.shortDescription,
   longDescription |-> category.longDescription,
   parentCategoryIds |-> IF category.parentCategoryIds = UndefinedIds
                         THEN <<>> ELSE category.parentCategoryIds,
   isSubCategory |-> category.isSubCategory,
   coverImage |-> category.coverImage]

handleEditCategory(category) ==
  /\ ~showAddForm
  /\ category \in Rows
  /\ formData' = EditForm(category)
  /\ editingCategory' = <<category>>
  /\ showAddForm' = TRUE
  /\ UNCHANGED <<authToken, detailPage, categories, loading, error, searchTerm,
                 isSubmitting, expandedCategories, filterType, net, lastOutput>>

(* Back to Categories / Cancel *)
BackToCategoriesAbandon ==
  /\ showAddForm
  /\ showAddForm' = FALSE
  /\ resetForm
  /\ isSubmitting' = FALSE
  /\ UNCHANGED <<authToken, detailPage, categories, loading, error, searchTerm,
                 expandedCategories, filterType, net, lastOutput>>

BackToCategories ==
  /\ showAddForm
  /\ showAddForm' = FALSE
  /\ resetForm
  /\ UNCHANGED <<authToken, detailPage, categories, loading, error, searchTerm,
                 isSubmitting, expandedCategories, filterType, net, lastOutput>>

handleInputChange(field, value) ==
  /\ showAddForm
  /\ ~isSubmitting
  /\ formData' = [formData EXCEPT ![field] = value]
  /\ UNCHANGED <<authToken, detailPage, categories, loading, error, searchTerm, showAddForm,
                 editingCategory, isSubmitting,
                 expandedCategories, filterType, net, lastOutput>>

(* the options of the parent select, in list order, and the selections a
   user can make among them *)
ParentOptions == SelectSeq(categories, LAMBDA c : ~c.isSubCategory)

OptionSelections ==
  {[i \in 1..Len(sel) |-> parseInt(toString(sel[i].id))] :
     sel \in {SelectSeq(ParentOptions, LAMBDA c : c.id \in chosen) :
                chosen \in SUBSET {c.id : c \in Range(ParentOptions)}}}

SelectedOptions ==
  {c \in Range(ParentOptions) :
     toString(c.id) \in {toString(formData.parentCategoryIds[k]) :
                            k \in 1..Len(formData.parentCategoryIds)}}

DomValue(text) == IF text = Undefined THEN <<>> ELSE text

FormValidTextsOnly ==
  /\ DomValue(formData.categoryName) # <<>>
  /\ DomValue(formData.shortDescription) # <<>>

(* constraint validation of the form's controls: the required attributes *)
FormValid ==
  /\ DomValue(formData.categoryName) # <<>>
  /\ DomValue(formData.shortDescription) # <<>>
  /\ formData.isSubCategory => SelectedOptions # {}

UpdateNotAFunction == "apiService.updateCategory is not a function"

TrimOfUndefined == "Cannot read properties of undefined (reading 'trim')"

categoryDataKeepParents ==
  [id |-> IF editingCategory # <<>> THEN <<editingCategory[1].id>> ELSE <<>>,
   categoryName |-> trim(formData.categoryName),
   shortDescription |-> trim(formData.shortDescription),
   longDescription |-> trim(formData.longDescription),
   isSubCategory |-> formData.isSubCategory,
   coverImage |-> IF trim(formData.coverImage) # <<>>
                  THEN trim(formData.coverImage) ELSE DefaultCover,
   parentCategoryIds |-> formData.parentCategoryIds]

categoryData ==
  [id |-> IF editingCategory # <<>> THEN <<editingCategory[1].id>> ELSE <<>>,
   categoryName |-> trim(formData.categoryName),
   shortDescription |-> trim(formData.shortDescription),
   longDescription |-> trim(formData.longDescription),
   isSubCategory |-> formData.isSubCategory,
   coverImage |-> IF trim(formData.coverImage) # <<>>
                  THEN trim(formData.coverImage) ELSE DefaultCover,
   parentCategoryIds |-> IF formData.isSubCategory
                         THEN formData.parentCategoryIds ELSE <<>>]

handleSubmit ==
  /\ showAddForm
  /\ ~isSubmitting
  /\ FormValid
  /\ IF Undefined \in {formData.longDescription, formData.coverImage}
     THEN /\ error' = TrimOfUndefined
          /\ lastOutput' = IF editingCategory # <<>> THEN "Error updating category:"
                           ELSE "Error creating category:"
          /\ isSubmitting' = FALSE
          /\ net' = net
     ELSE IF editingCategory # <<>>
     THEN /\ error' = UpdateNotAFunction
          /\ lastOutput' = "Error updating category:"
          /\ isSubmitting' = FALSE
          /\ net' = net
     ELSE /\ Len(net) < MaxInFlight
          /\ error' = ""
          /\ isSubmitting' = TRUE
          /\ net' = Append(net, createUpdateCategory(categoryData))
          /\ UNCHANGED lastOutput
  /\ UNCHANGED <<authToken, detailPage, categories, loading, searchTerm, showAddForm, editingCategory,
                 expandedCategories, filterType, formData>>

SubmitSucceeded(r) == r.kind = "return" /\ r.value.errorCode = 0

SubmitError(r) ==
  IF r.kind = "throw" THEN r.message
  ELSE IF r.value.errorMessage # "" THEN r.value.errorMessage
  ELSE "Failed to create category"

handleSubmitResolveNoAwait(i, o) ==
  /\ net[i].endpoint = "/category/createUpdateCategory"
  /\ IF SubmitSucceeded(makeRequest(o))
     THEN /\ loadCategoriesStart("none", Remove(net, i))
          /\ showAddForm' = FALSE
          /\ resetForm
          /\ lastOutput' = CreatedAlert
          /\ isSubmitting' = FALSE
     ELSE /\ error' = SubmitError(makeRequest(o))
          /\ lastOutput' = IF makeRequest(o).kind = "throw"
                           THEN "Error creating category:" ELSE lastOutput
          /\ isSubmitting' = FALSE
          /\ net' = Remove(net, i)
          /\ UNCHANGED <<loading, showAddForm, editingCategory, formData>>
  /\ UNCHANGED <<authToken, detailPage, categories, searchTerm, expandedCategories, filterType>>

handleSubmitResolveReset(i, o) ==
  /\ net[i].endpoint = "/category/createUpdateCategory"
  /\ IF SubmitSucceeded(makeRequest(o))
     THEN /\ loadCategoriesStart("handleSubmit", Remove(net, i))
          /\ UNCHANGED <<isSubmitting, lastOutput, showAddForm, editingCategory,
                         formData>>
     ELSE /\ error' = SubmitError(makeRequest(o))
          /\ lastOutput' = IF makeRequest(o).kind = "throw"
                           THEN "Error creating category:" ELSE lastOutput
          /\ isSubmitting' = FALSE
          /\ net' = Remove(net, i)
          /\ showAddForm' = FALSE
          /\ resetForm
          /\ UNCHANGED loading
  /\ UNCHANGED <<authToken, detailPage, categories, searchTerm,
                 expandedCategories, filterType>>

handleSubmitResolveNoFinally(i, o) ==
  /\ net[i].endpoint = "/category/createUpdateCategory"
  /\ IF SubmitSucceeded(makeRequest(o))
     THEN /\ loadCategoriesStart("handleSubmit", Remove(net, i))
          /\ UNCHANGED <<isSubmitting, lastOutput>>
     ELSE /\ error' = SubmitError(makeRequest(o))
          /\ lastOutput' = IF makeRequest(o).kind = "throw"
                           THEN "Error creating category:" ELSE lastOutput
          /\ isSubmitting' = (makeRequest(o).kind = "throw")
          /\ net' = Remove(net, i)
          /\ UNCHANGED loading
  /\ UNCHANGED <<authToken, detailPage, categories, searchTerm, showAddForm, editingCategory,
                 expandedCategories, filterType, formData>>

(* handleSubmit after the await of line 142, up to the await of line 146 or
   to the end of the handler *)
handleSubmitResolve(i, o) ==
  /\ net[i].endpoint = "/category/createUpdateCategory"
  /\ IF SubmitSucceeded(makeRequest(o))
     THEN /\ loadCategoriesStart("handleSubmit", Remove(net, i))
          /\ UNCHANGED <<isSubmitting, lastOutput>>
     ELSE /\ error' = SubmitError(makeRequest(o))
          /\ lastOutput' = IF makeRequest(o).kind = "throw"
                           THEN "Error creating category:" ELSE lastOutput
          /\ isSubmitting' = FALSE
          /\ net' = Remove(net, i)
          /\ UNCHANGED loading
  /\ UNCHANGED <<authToken, detailPage, categories, searchTerm, showAddForm, editingCategory,
                 expandedCategories, filterType, formData>>

handleDeleteCategoryCollapse(categoryId) ==
  /\ ~showAddForm
  /\ categoryId \in {c.id : c \in Rows}
  /\ Len(net) < MaxInFlight
  /\ error' = ""
  /\ net' = Append(net, deleteCategory([categoryId |-> categoryId]))
  /\ expandedCategories' = expandedCategories \ {categoryId}
  /\ UNCHANGED <<authToken, detailPage, categories, loading, searchTerm, showAddForm,
                 editingCategory, isSubmitting, filterType, formData, lastOutput>>

handleDeleteCategory(categoryId) ==
  /\ ~showAddForm
  /\ categoryId \in {c.id : c \in Rows}
  /\ Len(net) < MaxInFlight
  /\ error' = ""
  /\ net' = Append(net, deleteCategory([categoryId |-> categoryId]))
  /\ UNCHANGED <<authToken, detailPage, categories, loading, searchTerm, showAddForm, editingCategory,
                 isSubmitting, expandedCategories, filterType,
                 formData, lastOutput>>

handleDeleteResolveReloadAlways(i, o) ==
  /\ net[i].endpoint = "/category/softDeleteOrDetach"
  /\ loadCategoriesStart("handleDeleteCategory", Remove(net, i))
  /\ lastOutput' = IF makeRequest(o).kind = "return" THEN lastOutput
                   ELSE "Error deleting category:"
  /\ UNCHANGED <<authToken, detailPage, categories, searchTerm, showAddForm, editingCategory,
                 isSubmitting, expandedCategories, filterType, formData>>

handleDeleteResolveOptimistic(i, o) ==
  /\ net[i].endpoint = "/category/softDeleteOrDetach"
  /\ IF makeRequest(o).kind = "return"
     THEN /\ categories' = SelectSeq(categories,
                                     LAMBDA c : c.id # net[i].body[1].categoryId)
          /\ lastOutput' = DeletedAlert
          /\ UNCHANGED error
     ELSE /\ error' = makeRequest(o).message
          /\ lastOutput' = "Error deleting category:"
          /\ UNCHANGED categories
  /\ net' = Remove(net, i)
  /\ UNCHANGED <<authToken, detailPage, loading, searchTerm, showAddForm, editingCategory,
                 isSubmitting, expandedCategories, filterType, formData>>

handleDeleteResolveRetry(i, o) ==
  /\ net[i].endpoint = "/category/softDeleteOrDetach"
  /\ IF makeRequest(o).kind = "return"
     THEN /\ loadCategoriesStart("handleDeleteCategory", Remove(net, i))
          /\ UNCHANGED lastOutput
     ELSE /\ error' = makeRequest(o).message
          /\ lastOutput' = "Error deleting category:"
          /\ net' = Append(Remove(net, i), net[i])
          /\ UNCHANGED loading
  /\ UNCHANGED <<authToken, detailPage, categories, searchTerm, showAddForm, editingCategory,
                 isSubmitting, expandedCategories, filterType, formData>>

(* handleDeleteCategory after the await of line 180, up to the await of line
   181 or to the end of the handler *)
handleDeleteResolve(i, o) ==
  /\ net[i].endpoint = "/category/softDeleteOrDetach"
  /\ IF makeRequest(o).kind = "return"
     THEN /\ loadCategoriesStart("handleDeleteCategory", Remove(net, i))
          /\ UNCHANGED lastOutput
     ELSE /\ error' = makeRequest(o).message
          /\ lastOutput' = "Error deleting category:"
          /\ net' = Remove(net, i)
          /\ UNCHANGED loading
  /\ UNCHANGED <<authToken, detailPage, categories, searchTerm, showAddForm, editingCategory,
                 isSubmitting, expandedCategories, filterType, formData>>

toggleCategoryExpansion(categoryId) ==
  /\ categoryId \in {p.id : p \in {q \in ParentRows : Len(getSubCategories(q.id)) > 0}}
  /\ expandedCategories' = IF categoryId \in expandedCategories
                           THEN expandedCategories \ {categoryId}
                           ELSE expandedCategories \cup {categoryId}
  /\ UNCHANGED <<authToken, detailPage, categories, loading, error, searchTerm, showAddForm,
                 editingCategory, isSubmitting, filterType,
                 formData, net, lastOutput>>

setSearchTermRefetch(value) ==
  /\ ~showAddForm
  /\ searchTerm' = value
  /\ Len(net) < MaxInFlight
  /\ loadCategoriesStart("none", net)
  /\ UNCHANGED <<authToken, detailPage, categories, showAddForm, editingCategory,
                 isSubmitting, expandedCategories, filterType,
                 formData, lastOutput>>

setSearchTerm(value) ==
  /\ ~showAddForm
  /\ searchTerm' = value
  /\ UNCHANGED <<authToken, detailPage, categories, loading, error, showAddForm, editingCategory,
                 isSubmitting, expandedCategories, filterType,
                 formData, net, lastOutput>>

setFilterType(value) ==
  /\ ~showAddForm
  /\ filterType' = value
  /\ UNCHANGED <<authToken, detailPage, categories, loading, error, searchTerm, showAddForm,
                 editingCategory, isSubmitting,
                 expandedCategories, formData, net, lastOutput>>

ClearSearch ==
  /\ ~showAddForm
  /\ ~loading
  /\ Len(categories) > 0
  /\ Len(filteredCategories) = 0
  /\ searchTerm' = <<>>
  /\ filterType' = "all"
  /\ UNCHANGED <<authToken, detailPage, categories, loading, error, showAddForm, editingCategory,
                 isSubmitting, expandedCategories, formData, net, lastOutput>>

Next ==
  \/ \E i \in 1..Len(net), o \in HttpOutcomes : loadCategoriesResolve(i, o)
  \/ handleRefresh
  \/ handleAddCategory
  \/ \E c \in Rows : handleEditCategory(c)
  \/ BackToCategories
  \/ \E f \in FormFields, v \in TypedTexts : handleInputChange(f, v)
  \/ handleInputChange("isSubCategory", ~formData.isSubCategory)
  \/ \E sel \in OptionSelections :
        formData.isSubCategory /\ handleInputChange("parentCategoryIds", sel)
  \/ handleSubmit
  \/ \E i \in 1..Len(net), o \in WriteOutcomes : handleSubmitResolve(i, o)
  \/ \E c \in Rows : handleDeleteCategory(c.id)
  \/ \E i \in 1..Len(net), o \in WriteOutcomes : handleDeleteResolve(i, o)
  \/ \E c \in ParentRows : toggleCategoryExpansion(c.id)

Spec == Init /\ [][Next]_vars


---------------------------------------------------------------------------
(* The views as functions of a loaded list: every flat list of up to MaxLen
   records with the ids 1..n in any order, each record a parent or a
   sub-category with no parent ids, or some of the ids 1 and 2 *)

Perms(n) == {f \in [1..n -> 1..n] : \A i, j \in 1..n : f[i] = f[j] => i = j}

ParentMark == << <<"parent", 0>> >>

RefSeqs ==
  {<<>>, <<Num(1)>>, <<Num(2)>>, <<Num(1), Num(1)>>, <<Num(1), Num(2)>>,
   <<Num(2), Num(1)>>}

HierKinds == RefSeqs \cup {UndefinedIds, ParentMark}

HierCategory(i, kind) ==
  IF kind = ParentMark
  THEN Category(Num(i), <<"a">>, <<"a">>, <<>>, FALSE, <<>>, <<>>)
  ELSE Category(Num(i), <<"a">>, <<"a">>, <<>>, TRUE, kind, <<>>)

HierList(n, perm, kinds) == [j \in 1..n |-> HierCategory(perm[j], kinds[j])]

FilterTypes == {"all", "parent", "sub"}

Loaded(list) ==
  /\ authToken = SessionToken
  /\ detailPage = NotMounted
  /\ categories = list
  /\ loading = FALSE
  /\ error = ""
  /\ searchTerm = <<>>
  /\ showAddForm = FALSE
  /\ editingCategory = <<>>
  /\ isSubmitting = FALSE
  /\ expandedCategories = {}
  /\ filterType = "all"
  /\ formData = EmptyForm
  /\ net = <<>>
  /\ lastOutput = ""

InitHier ==
  \E n \in 0..MaxLen :
    \E perm \in Perms(n), kinds \in [1..n -> HierKinds] :
      Loaded(HierList(n, perm, kinds))

NextHier == \E ft \in FilterTypes : setFilterType(ft)

SpecHier == InitHier /\ [][NextHier]_vars

(* Search: lists of one or two records with varied texts, and every search
   term of up to MaxTermLen characters *)

Alphabet == {"a", "A", "b"}

SearchTerms == SeqsUpTo(Alphabet, MaxTermLen)

NameTexts == {<<>>, <<"a">>, <<"A", "b">>}

ShortTexts == {Undefined, <<"b">>, <<"b", "A">>}

LongTexts == {Undefined, <<"a", "B">>}

TextCategory(i, name, short, long) ==
  Category(Num(i), name, short, long, i = 2, IF i = 2 THEN <<Num(1)>> ELSE <<>>, <<>>)

TextCategories(i) ==
  {TextCategory(i, name, short, long) :
     name \in NameTexts, short \in ShortTexts, long \in LongTexts}

TextLists ==
  {<<c>> : c \in TextCategories(1) \cup TextCategories(2)}
  \cup (TextCategories(1) \X TextCategories(2))
  \cup (TextCategories(2) \X TextCategories(1))

InitSearch == \E list \in TextLists : Loaded(list)

NextSearch ==
  \/ \E t \in SearchTerms : setSearchTerm(t)
  \/ \E ft \in FilterTypes : setFilterType(ft)
  \/ ClearSearch

SpecSearch == InitSearch /\ [][NextSearch]_vars

(* The API client over every kind of answer: a rejected fetch with each
   platform's message, and 2xx and other statuses with a JSON envelope or a
   text body *)

ServerMessages == {"", "E", FailedToFetch}

ApiOutcomes ==
  {FetchRejected(m) : m \in FetchErrors}
  \cup {Http("ok", TRUE, TRUE, Envelope(ec, em, "", d), "") :
          ec \in {0, 1}, em \in {"", "E"}, d \in {<<>>, <<ExampleList>>}}
  \cup {Http("ok", FALSE, TRUE, Envelope(1, em, m, <<>>), "") :
          em \in ServerMessages, m \in {"", "M"}}
  \cup {Http("ok", isOk, FALSE, NoBody, txt) : isOk \in BOOLEAN, txt \in {"", "T"}}

NextApi ==
  \/ \E i \in 1..Len(net), o \in ApiOutcomes : loadCategoriesResolve(i, o)
  \/ handleRefresh
  \/ handleAddCategory
  \/ BackToCategories
  \/ \E f \in FormFields : handleInputChange(f, <<"a">>)
  \/ handleSubmit
  \/ \E i \in 1..Len(net), o \in ApiOutcomes : handleSubmitResolve(i, o)
  \/ \E c \in Rows : handleDeleteCategory(c.id)
  \/ \E i \in 1..Len(net), o \in ApiOutcomes : handleDeleteResolve(i, o)

SpecApi == Init /\ [][NextApi]_vars

(* The same with the edit form, and every fetch settling: the oldest request
   in flight is eventually answered *)

NextLive ==
  \/ NextApi
  \/ \E c \in Rows : handleEditCategory(c)

ResolveOldest ==
  /\ net # <<>>
  /\ \E o \in ApiOutcomes :
        \/ loadCategoriesResolve(1, o)
        \/ handleSubmitResolve(1, o)
        \/ handleDeleteResolve(1, o)

SpecLive == Init /\ [][NextLive]_vars /\ WF_vars(ResolveOldest)

SpecEdit == Init /\ [][NextLive]_vars

(* The stored token: the sign-in and sign-out code, outside these files,
   writes and removes the item while the page is open *)

setAuthToken(token) ==
  /\ authToken' = token
  /\ authToken' # authToken
  /\ UNCHANGED <<detailPage, categories, loading, error, searchTerm, showAddForm,
                 editingCategory, isSubmitting, expandedCategories, filterType,
                 formData, net, lastOutput>>

InitAuth == \E token \in StoredTokens : InitWith(token)

NextAuth ==
  \/ \E token \in StoredTokens : setAuthToken(token)
  \/ \E i \in 1..Len(net), o \in HttpOutcomes : loadCategoriesResolve(i, o)
  \/ handleRefresh
  \/ handleAddCategory
  \/ BackToCategories
  \/ \E f \in FormFields : handleInputChange(f, <<"a">>)
  \/ handleSubmit
  \/ \E i \in 1..Len(net), o \in WriteOutcomes : handleSubmitResolve(i, o)
  \/ \E c \in Rows : handleDeleteCategory(c.id)
  \/ \E i \in 1..Len(net), o \in WriteOutcomes : handleDeleteResolve(i, o)

SpecAuth == InitAuth /\ [][NextAuth]_vars

(* Expansion: the server holds two parents with one sub-category each, or
   the example list, or nothing; the user expands, searches, filters,
   refreshes, creates and deletes *)

P3 == Category(Num(3), <<"b">>, <<"b">>, <<>>, FALSE, <<>>, <<>>)

S4 == Category(Num(4), <<"b">>, <<"b">>, <<>>, TRUE, <<Num(3)>>, <<>>)

TwoFamilies == <<P1, S2, P3, S4>>

ExpandOutcomes ==
  {FetchFailed}
  \cup {Http("ok", TRUE, TRUE, Envelope(0, "", "", <<L>>), "") :
          L \in {<<>>, ExampleList, TwoFamilies}}

ExpandTerms == {<<>>, <<"b">>}

NextExpand ==
  \/ \E i \in 1..Len(net), o \in ExpandOutcomes : loadCategoriesResolve(i, o)
  \/ handleRefresh
  \/ \E c \in ParentRows : toggleCategoryExpansion(c.id)
  \/ \E t \in ExpandTerms : setSearchTerm(t)
  \/ \E ft \in FilterTypes : setFilterType(ft)
  \/ ClearSearch
  \/ handleAddCategory
  \/ BackToCategories
  \/ \E f \in FormFields : handleInputChange(f, <<"a">>)
  \/ handleSubmit
  \/ \E i \in 1..Len(net), o \in WriteOutcomes : handleSubmitResolve(i, o)
  \/ \E c \in Rows : handleDeleteCategory(c.id)
  \/ \E i \in 1..Len(net), o \in WriteOutcomes : handleDeleteResolve(i, o)

SpecExpand == Init /\ [][NextExpand]_vars

(* Creates and deletes that the server accepts, loads that succeed or fail *)

ReloadOutcomes ==
  {FetchFailed, Http("ok", TRUE, TRUE, Envelope(0, "", "", <<ExampleList>>), "")}

WriteSuccesses ==
  {o \in WriteOutcomes :
     makeRequest(o).kind = "return" /\ makeRequest(o).value.errorCode = 0}

NextReload ==
  \/ \E i \in 1..Len(net), o \in ReloadOutcomes : loadCategoriesResolve(i, o)
  \/ handleRefresh
  \/ handleAddCategory
  \/ BackToCategories
  \/ \E f \in FormFields : handleInputChange(f, <<"a">>)
  \/ handleSubmit
  \/ \E i \in 1..Len(net), o \in WriteSuccesses : handleSubmitResolve(i, o)
  \/ \E c \in Rows : handleDeleteCategory(c.id)
  \/ \E i \in 1..Len(net), o \in WriteSuccesses : handleDeleteResolve(i, o)

SpecReload == Init /\ [][NextReload]_vars

(* The list view alone: loads, search, filter and expansion, no form *)

ViewOutcomes ==
  ExpandOutcomes
  \cup {Http("ok", TRUE, TRUE, Envelope(1, "E", "", <<>>), ""),
        Http("ok", TRUE, TRUE, Envelope(0, "", "", <<>>), "")}

NextView ==
  \/ \E i \in 1..Len(net), o \in ViewOutcomes : loadCategoriesResolve(i, o)
  \/ handleRefresh
  \/ \E c \in ParentRows : toggleCategoryExpansion(c.id)
  \/ \E t \in ExpandTerms : setSearchTerm(t)
  \/ \E ft \in FilterTypes : setFilterType(ft)
  \/ ClearSearch

SpecView == Init /\ [][NextView]_vars

(* Identifiers as the server sends them, a number or a string: lists of one
   parent with id 1 and one or two sub-categories naming parent 1 or 3 *)

IdForms(n) == {Num(n), Str(n)}

MixedRefSeqs ==
  {<<x>> : x \in IdForms(1) \cup IdForms(3)} \cup {<<Num(1), Str(1)>>}

MixedParent(id) == Category(id, <<"a">>, <<"a">>, <<>>, FALSE, <<>>, <<>>)

MixedSub(id, pids) == Category(id, <<"a">>, <<"a">>, <<>>, TRUE, pids, <<>>)

MixedLists ==
  UNION {{<<p, s>>, <<s, p>>} :
           p \in {MixedParent(id) : id \in IdForms(1)},
           s \in {MixedSub(Num(2), pids) : pids \in MixedRefSeqs}}
  \cup UNION {{<<p, s, t>>, <<s, p, t>>, <<s, t, p>>} :
           p \in {MixedParent(id) : id \in IdForms(1)},
           s \in {MixedSub(Num(2), pids) : pids \in MixedRefSeqs},
           t \in {MixedSub(Str(4), pids) : pids \in MixedRefSeqs}}

InitIds == \E list \in MixedLists : Loaded(list)

NextIds ==
  \/ \E ft \in FilterTypes : setFilterType(ft)
  \/ \E c \in ParentRows : toggleCategoryExpansion(c.id)

SpecIds == InitIds /\ [][NextIds]_vars

---------------------------------------------------------------------------
(* The category detail page, CategoryDetailPage: detailPage holds the route
   parameter id, the component's state (category, loading, error,
   subCategories) and, in calls, the categoryId argument of every
   fetchCategoryDetails call that awaits its response; calls[i] awaits
   net[i] *)

RouteIds == {Str(1), Str(2), Str(3)}

DetailOutcomes ==
  {FetchFailed, Http("ok", TRUE, TRUE, Envelope(1, "E", "", <<>>), "")}
  \cup {Http("ok", TRUE, TRUE, Envelope(0, "", "", <<L>>), "") :
          L \in {<<>>, ExampleList}}

UnexpectedFormat == "Failed to load categories - unexpected response format"

NoCategoriesFound == "No categories found"

CategoryNotFound(categoryId) ==
  "Category with ID " \o ToString(categoryId[2]) \o " not found"

(* fetchCategoryDetails up to its await; page is the state it starts from *)
fetchCategoryDetails(page, categoryId) ==
  /\ detailPage' = [page EXCEPT !.loading = TRUE, !.error = "",
                                !.calls = Append(@, categoryId)]
  /\ net' = Append(net, getAllCategories("fetchCategoryDetails"))

(* the page is opened on /categories/:id *)
InitDetail ==
  /\ authToken = SessionToken
  /\ \E r \in RouteIds :
       detailPage = [id |-> r, category |-> <<>>, loading |-> TRUE, error |-> "",
                     subCategories |-> <<>>, calls |-> <<r>>]
  /\ net = <<getAllCategories("fetchCategoryDetails")>>
  /\ categories = <<>>
  /\ loading = TRUE
  /\ error = ""
  /\ searchTerm = <<>>
  /\ showAddForm = FALSE
  /\ editingCategory = <<>>
  /\ isSubmitting = FALSE
  /\ expandedCategories = {}
  /\ filterType = "all"
  /\ formData = EmptyForm
  /\ lastOutput = ""

ListPageUnchanged ==
  UNCHANGED <<authToken, categories, loading, error, searchTerm, showAddForm,
              editingCategory, isSubmitting, expandedCategories, filterType,
              formData, lastOutput>>

(* the route parameter changes and the effect on [id] runs again *)
useEffectId(newId) ==
  /\ detailPage # NotMounted
  /\ newId # detailPage.id
  /\ Len(net) < MaxInFlight
  /\ fetchCategoryDetails([detailPage EXCEPT !.id = newId], newId)
  /\ ListPageUnchanged

DetailResolved(page, r, categoryId) ==
  IF r.kind = "throw" THEN [page EXCEPT !.error = r.message]
  ELSE IF r.value.data = <<>> THEN [page EXCEPT !.error = UnexpectedFormat]
  ELSE IF r.value.data[1] = <<>> THEN [page EXCEPT !.error = NoCategoriesFound]
  ELSE LET found == FoundCategory(r.value.data[1], categoryId)
       IN  IF found = <<>> THEN [page EXCEPT !.error = CategoryNotFound(categoryId)]
           ELSE IF found[1].isSubCategory THEN [page EXCEPT !.category = found]
           ELSE [page EXCEPT !.category = found,
                             !.subCategories = subCats(r.value.data[1], found[1].id)]

(* fetchCategoryDetails after its await, to the end of the finally block *)
fetchCategoryDetailsResolve(i, o) ==
  /\ detailPage # NotMounted
  /\ i \in 1..Len(net)
  /\ net[i].awaitedBy = "fetchCategoryDetails"
  /\ detailPage' =
       [DetailResolved(detailPage, makeRequest(o), detailPage.calls[i])
          EXCEPT !.loading = FALSE, !.calls = Remove(@, i)]
  /\ net' = Remove(net, i)
  /\ ListPageUnchanged

NextDetail ==
  \/ \E newId \in RouteIds : useEffectId(newId)
  \/ \E i \in 1..Len(net), o \in DetailOutcomes : fetchCategoryDetailsResolve(i, o)

SpecDetail == InitDetail /\ [][NextDetail]_vars

---------------------------------------------------------------------------
(* Properties of the grouping *)

ParentsOf(cats) == {i \in 1..Len(cats) : ~cats[i].isSubCategory}

LinkedTo(cats, parentId) ==
  {j \in 1..Len(cats) :
     cats[j].isSubCategory /\ parentId \in Range(cats[j].parentCategoryIds)}

(* children is the list of the records of cats at the positions idx, in
   increasing position *)
IsSelection(children, cats, idx) ==
  /\ Len(children) = Cardinality(idx)
  /\ \A k \in 1..Len(children) :
        \E j \in idx : /\ Cardinality({m \in idx : m <= j}) = k
                       /\ children[k] = cats[j]

Ids(cats) == [k \in 1..Len(cats) |-> cats[k].id]

Unfiltered == searchTerm = <<>> /\ filterType = "all"

(* C1: with no search text and filter 'all', the children computed for a
   parent P, on the list page and on the detail page, are exactly the
   sub-categories whose parentCategoryIds contains P.id, in list order; the
   list of the specification's example groups as {1: [2]}; a sub-category
   whose parent ids match no parent is among the children of no parent *)
C1_ChildrenExact ==
  Unfiltered =>
    /\ \A i \in ParentsOf(categories) :
          /\ IsSelection(getSubCategories(categories[i].id), categories,
                         LinkedTo(categories, categories[i].id))
          /\ FoundCategory(categories, toString(categories[i].id)) = <<categories[i]>>
          /\ IsSelection(subCats(categories, categories[i].id), categories,
                         LinkedTo(categories, categories[i].id))
    /\ categories = ExampleList =>
          /\ Ids(parentCategories) = <<Num(1)>>
          /\ Ids(getSubCategories(Num(1))) = <<Num(2)>>
          /\ Ids(subCats(categories, Num(1))) = <<Num(2)>>
    /\ \A j \in 1..Len(categories) :
          (/\ categories[j].isSubCategory
           /\ \A i \in ParentsOf(categories) : j \notin LinkedTo(categories, categories[i].id))
          => \A i \in ParentsOf(categories) :
                /\ categories[j] \notin Range(getSubCategories(categories[i].id))
                /\ categories[j] \notin Range(subCats(categories, categories[i].id))

C1_Witness ==
  /\ Unfiltered
  /\ \E i \in ParentsOf(categories) :
        /\ i > 1
        /\ Len(getSubCategories(categories[i].id)) = 2
        /\ Len(subCats(categories, categories[i].id)) = 2

Occurrences(children, cat) == Cardinality({k \in 1..Len(children) : children[k] = cat})

(* C2 as stated: every sub-category S that names a parent P of the list is
   among the children of P exactly once *)
C2_Original ==
  \A i \in ParentsOf(categories) :
    \A j \in LinkedTo(categories, categories[i].id) :
      /\ Occurrences(getSubCategories(categories[i].id), categories[j]) = 1
      /\ Occurrences(subCats(categories, categories[i].id), categories[j]) = 1

(* C2: every sub-category S that names a parent P of the list is among the
   children of P exactly once on the detail page, and on the list page
   whenever S passes the current search text and filter type, for every
   order of the list and also when P.id occurs twice in S.parentCategoryIds *)
C2_ChildOnce ==
  \A i \in ParentsOf(categories) :
    \A j \in LinkedTo(categories, categories[i].id) :
      /\ categories[j] \in Range(filteredCategories)
            => Occurrences(getSubCategories(categories[i].id), categories[j]) = 1
      /\ Occurrences(subCats(categories, categories[i].id), categories[j]) = 1

C2_Witness ==
  /\ filterType = "sub"
  /\ \E i \in ParentsOf(categories) :
       \E j \in LinkedTo(categories, categories[i].id) :
          /\ j < i
          /\ categories[j].parentCategoryIds = <<categories[i].id, categories[i].id>>
          /\ Occurrences(getSubCategories(categories[i].id), categories[j]) = 1

TolerantLinkedTo(cats, parentId) ==
  {j \in 1..Len(cats) :
     /\ cats[j].isSubCategory
     /\ cats[j].parentCategoryIds # UndefinedIds
     /\ \E k \in 1..Len(cats[j].parentCategoryIds) :
           cats[j].parentCategoryIds[k][2] = parentId[2]}

(* C14 as stated: a sub-category that names the id of a parent, as a number
   or as a string whatever the form of the parent's own id, is among the
   children of that parent on the list page (no search text, filter 'all')
   and on the detail page *)
C14_Original ==
  \A i \in ParentsOf(categories) :
    \A j \in TolerantLinkedTo(categories, categories[i].id) :
      /\ Unfiltered => categories[j] \in Range(getSubCategories(categories[i].id))
      /\ categories[j] \in Range(subCats(categories, categories[i].id))

---------------------------------------------------------------------------
(* Properties of the search *)

SameLetter(c, d) == c = d \/ {c, d} = {"a", "A"} \/ {c, d} = {"b", "B"}

ContainsIgnoringCase(text, term) ==
  /\ text # Undefined
  /\ \E off \in 0..(Len(text) - Len(term)) :
        \A k \in 1..Len(term) : SameLetter(text[off + k], term[k])

(* C10: every category of the filtered result is an element of the loaded
   list, and its name, short description or long description contains the
   search term, compared without regard to case *)
C10_FilteredMatches ==
  \A k \in 1..Len(filteredCategories) :
    /\ \E i \in 1..Len(categories) : categories[i] = filteredCategories[k]
    /\ \/ ContainsIgnoringCase(filteredCategories[k].categoryName, searchTerm)
       \/ ContainsIgnoringCase(filteredCategories[k].shortDescription, searchTerm)
       \/ ContainsIgnoringCase(filteredCategories[k].longDescription, searchTerm)

C10_Witness ==
  /\ searchTerm = <<"A", "b">>
  /\ Len(categories) = 2
  /\ Len(filteredCategories) = 1
  /\ filteredCategories[1].categoryName = <<>>
  /\ filteredCategories[1].shortDescription = Undefined
  /\ filteredCategories[1].longDescription = <<"a", "B">>

---------------------------------------------------------------------------
(* Properties of the requests the list page issues *)

IsCreate(r) == r.endpoint = "/category/createUpdateCategory"

IsDelete(r) == r.endpoint = "/category/softDeleteOrDetach"

IsLoad(r) == r.endpoint = "/category/getAll"

Loads(requests) == Cardinality({i \in 1..Len(requests) : IsLoad(requests[i])})

Creates == {j \in 1..Len(net) : IsCreate(net[j])}

Deletes == {j \in 1..Len(net) : IsDelete(net[j])}

Payloads == {net[i].body[1] : i \in Creates}

Failures == {o \in WriteOutcomes : makeRequest(o).kind = "throw"}

(* C3: no create/update request in flight has isSubCategory = true and an
   empty parentCategoryIds, and the form cannot be submitted while the
   sub-category box is checked and no parent is selected *)
C3_NoSubWithoutParent ==
  /\ \A data \in Payloads : ~(data.isSubCategory /\ data.parentCategoryIds = <<>>)
  /\ (formData.isSubCategory /\ formData.parentCategoryIds = <<>>) => ~ENABLED handleSubmit

C3_Witness ==
  /\ showAddForm
  /\ ~isSubmitting
  /\ editingCategory = <<>>
  /\ formData.isSubCategory
  /\ formData.parentCategoryIds = <<>>
  /\ formData.categoryName = <<"a">>
  /\ formData.shortDescription = <<"a">>
  /\ Len(ParentOptions) > 0
  /\ Len(net) < MaxInFlight

(* C4: a step in which a delete request fails leaves categories as it was,
   issues no getAllCategories request, and sets error to the failure message *)
C4_FailedDeleteKeepsList ==
  [][\A i \in Deletes, o \in Failures :
       handleDeleteResolve(i, o)
       => /\ categories' = categories
          /\ Loads(net') = Loads(net)
          /\ error' = makeRequest(o).message]_vars

C4_Witness ==
  /\ lastOutput = "Error deleting category:"
  /\ error = "E"
  /\ categories = ExampleList
  /\ net = <<>>

ReloadResolved ==
  \E i \in 1..Len(net) :
    IsLoad(net[i]) /\ net[i].awaitedBy # "none" /\ net' = Remove(net, i)

(* C5: the step in which a create or delete request succeeds issues a
   getAllCategories request and reports nothing yet; success is reported, and
   the form is closed by the submit, only in the step in which that reload
   resolves; the step in which the request fails issues no reload *)
C5_ReloadBeforeSuccess ==
  [][/\ \A i \in Creates, o \in ApiOutcomes :
          handleSubmitResolve(i, o) =>
             IF SubmitSucceeded(makeRequest(o))
             THEN /\ net' = Append(Remove(net, i), getAllCategories("handleSubmit"))
                  /\ UNCHANGED <<showAddForm, lastOutput, isSubmitting>>
             ELSE Loads(net') = Loads(net)
     /\ \A i \in Deletes, o \in ApiOutcomes :
          handleDeleteResolve(i, o) =>
             IF makeRequest(o).kind = "return"
             THEN /\ net' = Append(Remove(net, i), getAllCategories("handleDeleteCategory"))
                  /\ UNCHANGED lastOutput
             ELSE Loads(net') = Loads(net)
     /\ (lastOutput' \in {CreatedAlert, DeletedAlert} /\ lastOutput' # lastOutput)
           => ReloadResolved
     /\ (isSubmitting /\ showAddForm /\ ~showAddForm' /\ ~isSubmitting')
           => ReloadResolved]_vars

C5_Witness ==
  /\ lastOutput = CreatedAlert
  /\ ~showAddForm
  /\ ~isSubmitting
  /\ categories = ExampleList
  /\ net = <<>>

(* C6: categories is the initial empty list or the data of a successful
   getAllCategories response, and it changes only in the step in which such a
   response resolves, to the data of that response *)
C6_ReadThroughCache ==
  /\ [](categories = <<>> \/ categories \in ServerLists)
  /\ [][categories' # categories
          => \E i \in 1..Len(net) :
                /\ IsLoad(net[i])
                /\ net' = Remove(net, i)
                /\ categories' \in ServerLists]_vars

C6_Witness ==
  /\ lastOutput = DeletedAlert
  /\ categories = ExampleList
  /\ ~loading
  /\ net = <<>>

(* C7 as stated: a submit in edit mode issues one POST
   /category/createUpdateCategory request whose payload carries the id of the
   edited category *)
C7_Original ==
  [][(editingCategory # <<>> /\ handleSubmit)
       => /\ Len(net') = Len(net) + 1
          /\ net'[Len(net')].method = "POST"
          /\ IsCreate(net'[Len(net')])
          /\ net'[Len(net')].body[1].id = <<editingCategory[1].id>>]_vars

(* C8 as stated: no create/update request carries an empty categoryName or
   an empty shortDescription *)
C8_Original ==
  \A data \in Payloads : data.categoryName # <<>> /\ data.shortDescription # <<>>

(* C9: every create/update request with isSubCategory = false carries
   parentCategoryIds = [], whatever the form holds *)
C9_ParentIdsForcedEmpty ==
  \A data \in Payloads : ~data.isSubCategory => data.parentCategoryIds = <<>>

C9_Witness ==
  /\ isSubmitting
  /\ showAddForm
  /\ ~formData.isSubCategory
  /\ formData.parentCategoryIds # <<>>
  /\ \E data \in Payloads : ~data.isSubCategory /\ data.parentCategoryIds = <<>>

---------------------------------------------------------------------------
(* Properties of loadCategories *)

LoadIdx == {j \in 1..Len(net) : IsLoad(net[j])}

LoadSuccesses ==
  {o \in HttpOutcomes :
     /\ makeRequest(o).kind = "return"
     /\ makeRequest(o).value.errorCode = 0
     /\ makeRequest(o).value.data # <<>>}

(* C11: whichever of the getAllCategories requests in flight resolves, first
   or last issued, a successful response replaces categories by its data, and
   no other step changes categories: after two overlapping loads the list is
   the data of the response that resolved last (a load resolves only in
   steps that leave fewer requests in flight) *)
C11_LastResolvedWins ==
  [][/\ Len(net') < Len(net) =>
          \A i \in LoadIdx, o \in LoadSuccesses :
            loadCategoriesResolve(i, o) => categories' = makeRequest(o).value.data[1]
     /\ categories' # categories
           => \E i \in LoadIdx, o \in LoadSuccesses : loadCategoriesResolve(i, o)]_vars

(* one of two overlapping loads has resolved with the example list, after the
   other was issued, and the other is still in flight *)
C11_Witness ==
  /\ ~loading
  /\ Cardinality(LoadIdx) = 1
  /\ categories = ExampleList
  /\ lastOutput = DeletedAlert
  /\ net[1].awaitedBy = "none"

ApiLoadSuccesses ==
  {o \in ApiOutcomes :
     /\ o.transport = "ok" /\ o.ok /\ o.json
     /\ o.body.errorCode = 0
     /\ o.body.data # <<>>}

ApiLoadFailures == ApiOutcomes \ ApiLoadSuccesses

(* C12: a step that issues a getAllCategories request sets loading = true
   and error = ''; the step in which a load resolves sets loading = false
   and either the response has errorCode 0 and non-null data, categories
   becomes that data and error is not written, or else error becomes
   non-empty and categories is not replaced (a load resolves exactly in the
   steps that leave fewer loads in flight) *)
C12_LoadOutcomes ==
  [][/\ Loads(net') > Loads(net) => (loading' /\ error' = "")
     /\ Loads(net') < Loads(net) =>
          \A i \in LoadIdx :
            /\ \A o \in ApiLoadSuccesses :
                  loadCategoriesResolve(i, o)
                  => /\ ~loading'
                     /\ categories' = o.body.data[1]
                     /\ error' = error
            /\ \A o \in ApiLoadFailures :
                  loadCategoriesResolve(i, o)
                  => /\ ~loading'
                     /\ error' # ""
                     /\ categories' = categories]_vars

(* a load has failed with null data after an earlier one had succeeded *)
C12_Witness ==
  /\ ~loading
  /\ error = FailedToLoad
  /\ categories = ExampleList
  /\ net = <<>>

---------------------------------------------------------------------------
(* Properties of the submit *)

SubmitPending ==
  \E j \in 1..Len(net) :
     IsCreate(net[j]) \/ (IsLoad(net[j]) /\ net[j].awaitedBy = "handleSubmit")

(* C13: isSubmitting is true exactly while the create/update request of a
   submit, or the reload that follows its success, is in flight; it is false
   again in the step in which the request fails (error envelope or thrown
   failure) or the reload resolves, and a form that is submitting is
   eventually not submitting *)
C13_SubmittingUntilDone ==
  /\ [](isSubmitting <=> SubmitPending)
  /\ [][\A i \in Creates, o \in ApiOutcomes :
          handleSubmitResolve(i, o)
          => isSubmitting' = SubmitSucceeded(makeRequest(o))]_vars
  /\ (isSubmitting ~> ~isSubmitting)

(* the create succeeded and its reload is in flight: still submitting *)
C13_Witness ==
  /\ isSubmitting
  /\ showAddForm
  /\ Creates = {}
  /\ \E j \in LoadIdx : net[j].awaitedBy = "handleSubmit"

---------------------------------------------------------------------------
(* Properties of the delete *)

EnvelopeFailures ==
  {o \in WriteOutcomes : makeRequest(o).kind = "return" /\ makeRequest(o).value.errorCode # 0}

(* C15 as stated: the step in which a delete response with a 2xx status and
   a non-zero errorCode resolves stores the envelope's message in error and
   starts no reload that ends in the success alert *)
C15_Original ==
  [][\A i \in Deletes, o \in EnvelopeFailures :
       handleDeleteResolve(i, o)
       => /\ error' = makeRequest(o).value.errorMessage
          /\ Loads(net') = Loads(net)]_vars

---------------------------------------------------------------------------
(* Properties of the API client's failures *)

Rejections == {o \in ApiOutcomes : o.transport = "ok" /\ ~o.ok}

ServerMessage(o) ==
  IF o.json /\ o.body.errorMessage # "" THEN o.body.errorMessage
  ELSE IF o.json /\ o.body.message # "" THEN o.body.message
  ELSE IF ~o.json /\ o.text # "" THEN o.text
  ELSE "Request failed"

Resolves(i, o) ==
  loadCategoriesResolve(i, o) \/ handleSubmitResolve(i, o) \/ handleDeleteResolve(i, o)

(* C16: for a response with a non-2xx status makeRequest throws an error
   whose message is the body's errorMessage if non-empty, else the body's
   message if non-empty, else 'Request failed', and the step in which the
   load, the submit or the delete receives it stores that message in error *)
C16_ServerMessageVerbatim ==
  /\ [](\A o \in Rejections : makeRequest(o) = Throw(ServerMessage(o)))
  /\ [][\A i \in 1..Len(net), o \in Rejections :
          Resolves(i, o) => error' = ServerMessage(o)]_vars

(* a load was answered with a non-2xx status, an empty errorMessage and the
   message 'M' *)
C16_Witness ==
  /\ error = "M"
  /\ lastOutput = "Error loading categories:"
  /\ ~loading
  /\ net = <<>>

TransportFailures == {o \in ApiOutcomes : o.transport = "failed"}

(* C17 as stated: every rejected fetch is reported by makeRequest with the
   network error message, and no answer of the server with a non-2xx status
   is reported with that message *)
C17_Original ==
  /\ [](/\ \A o \in TransportFailures : makeRequest(o) = Throw(NetworkErrorMessage)
        /\ \A o \in Rejections : makeRequest(o).message # NetworkErrorMessage)
  /\ [][\A i \in 1..Len(net) :
          /\ \A o \in TransportFailures : Resolves(i, o) => error' = NetworkErrorMessage
          /\ \A o \in Rejections : Resolves(i, o) => error' # NetworkErrorMessage]_vars

---------------------------------------------------------------------------
(* Properties of the requests the API client sends *)

ApiFailures == {o \in ApiOutcomes : makeRequest(o).kind = "throw"}

SubmitFailures == {o \in ApiOutcomes : ~SubmitSucceeded(makeRequest(o))}

(* C18: a step sends at most one request, and Refresh, a submit that reaches
   the API client and a delete send exactly one; the step in which a load
   resolves, or a create/update or a delete fails, sends none: the failed
   request leaves the requests in flight and nothing takes its place *)
C18_OneRequestNoRetry ==
  [][/\ Len(net') <= Len(net) + 1
     /\ handleRefresh => net' = Append(net, getAllCategories("none"))
     /\ (handleSubmit /\ isSubmitting')
           => (Len(net') = Len(net) + 1 /\ SubSeq(net', 1, Len(net)) = net)
     /\ (\E c \in Rows : handleDeleteCategory(c.id))
           => (Len(net') = Len(net) + 1 /\ SubSeq(net', 1, Len(net)) = net)
     /\ \A i \in 1..Len(net) :
          /\ \A o \in ApiOutcomes : loadCategoriesResolve(i, o) => net' = Remove(net, i)
          /\ \A o \in SubmitFailures : handleSubmitResolve(i, o) => net' = Remove(net, i)
          /\ \A o \in ApiFailures : handleDeleteResolve(i, o) => net' = Remove(net, i)]_vars

(* a delete has failed and no request is in flight *)
C18_Witness ==
  /\ lastOutput = "Error deleting category:"
  /\ error = NetworkErrorMessage
  /\ net = <<>>
  /\ categories = ExampleList

IssuesRequest == net' # net /\ Len(net') >= Len(net)

(* C19: the request a step issues carries Authorization: 'Bearer <token>'
   when a non-empty token is stored at that time, and no Authorization
   header when the item is missing or empty *)
C19_BearerIffToken ==
  [][IssuesRequest =>
       LET sent == net'[Len(net')]
       IN  IF authToken \in {NoToken, <<"">>}
           THEN sent.headers.Authorization = <<>>
           ELSE sent.headers.Authorization = << "Bearer " \o authToken[1] >>]_vars

(* two requests in flight, the first sent with the token and the second
   after the token was removed *)
C19_Witness ==
  /\ Len(net) = 2
  /\ net[1].headers.Authorization = <<"Bearer t">>
  /\ net[2].headers.Authorization = <<>>
  /\ authToken = NoToken

---------------------------------------------------------------------------
(* Properties of the expanded set *)

Toggled(id) ==
  expandedCategories' = IF id \in expandedCategories
                        THEN expandedCategories \ {id}
                        ELSE expandedCategories \cup {id}

(* C20: a step changes expandedCategories only if it is
   toggleCategoryExpansion of a parent row, and then adds that id if absent
   and removes it if present; every row shown is a record of categories, and
   every sub-category row is a child of a shown parent whose id is in the
   set, so an id of the set that is not in the list shows nothing *)
C20_ExpandedOnlyToggled ==
  /\ [][expandedCategories' # expandedCategories
          => \E c \in ParentRows : toggleCategoryExpansion(c.id) /\ Toggled(c.id)]_vars
  /\ [](/\ Rows \subseteq Range(categories)
        /\ \A r \in SubRows :
              \E p \in ParentRows : p.id \in expandedCategories /\ IsChildOf(r, p.id)
        /\ (\A p \in ParentRows : p.id \notin expandedCategories) => SubRows = {})

(* parent 3 was expanded, then parent 1, and a reload brought the example
   list, which has no parent 3: only the child of parent 1 is shown *)
C20_Witness ==
  /\ expandedCategories = {Num(1), Num(3)}
  /\ categories = ExampleList
  /\ ~loading
  /\ ~showAddForm
  /\ SubRows = {S2}

---------------------------------------------------------------------------
(* Properties of the search and filter inputs *)

(* C21: a step that changes searchTerm or filterType issues no request and
   leaves categories, loading, error and the form (showAddForm, formData,
   editingCategory, isSubmitting) as they were *)
C21_SearchIsLocal ==
  [][(searchTerm' # searchTerm \/ filterType' # filterType)
       => UNCHANGED <<net, categories, loading, error, showAddForm, formData,
                      editingCategory, isSubmitting>>]_vars

(* the search text and the filter were changed while a load was in flight *)
C21_Witness ==
  /\ searchTerm = <<"b">>
  /\ filterType = "sub"
  /\ Loads(net) = 1
  /\ loading
  /\ categories = TwoFamilies
  /\ Ids(filteredCategories) = <<Num(4)>>

(* the children shown under every id of the loaded list *)
Grouping ==
  [p \in {c.id : c \in Range(categories)} |-> getSubCategories(p)]

(* C22: the filtered list and the per-parent children are a function of
   (categories, searchTerm, filterType) alone: a step that leaves the three
   unchanged leaves both unchanged; filtering the filtered list again, or
   grouping a group again, returns it as it is; and the computation changes
   no record: categories changes only when a load resolves, and then to the
   list of the response *)
C22_PureGrouping ==
  /\ [](/\ FilterCategories(filteredCategories, searchTerm, filterType)
            = filteredCategories
        /\ \A p \in DOMAIN Grouping :
             SelectSeq(Grouping[p], LAMBDA c : IsChildOf(c, p)) = Grouping[p])
  /\ [][UNCHANGED <<categories, searchTerm, filterType>>
          => /\ filteredCategories' = filteredCategories
             /\ parentCategories' = parentCategories
             /\ Grouping' = Grouping]_vars
  /\ [][categories' # categories
          => \E i \in LoadIdx, o \in ViewOutcomes :
               /\ loadCategoriesResolve(i, o)
               /\ categories' = LoadedData(makeRequest(o))]_vars

(* a filtered, grouped view was recomputed by a step (Refresh) that left
   its three inputs alone *)
C22_Witness ==
  /\ categories = TwoFamilies
  /\ searchTerm = <<"b">>
  /\ filterType = "all"
  /\ loading
  /\ Ids(filteredCategories) = <<Num(3), Num(4)>>
  /\ Grouping[Num(3)] = <<S4>>
  /\ Grouping[Num(1)] = <<>>

---------------------------------------------------------------------------
(* Properties of overlapping loads *)

(* C23: whenever a getAllCategories request issued by loadCategories is in
   flight, loading is true *)
C23_Original == Loads(net) > 0 => loading

(* C24: where no create/update and no delete fails, a load that resolves
   with success and leaves no request in flight leaves error empty, also
   when an overlapping load failed before it *)
C24_Original ==
  [][\A i \in LoadIdx, o \in ReloadOutcomes :
       (/\ loadCategoriesResolve(i, o)
        /\ makeRequest(o).kind = "return"
        /\ net' = <<>>)
         => error' = ""]_vars

---------------------------------------------------------------------------
(* Properties of the hierarchy view *)

(* the categories the hierarchy view can show: the parent rows, and the
   sub-category rows under them once they are expanded *)
Reachable ==
  Range(parentCategories)
    \cup UNION {Range(getSubCategories(p.id)) : p \in Range(parentCategories)}

(* C25: when the list is shown, every category of the filtered list is a
   parent row or a child of a parent row, for every search text and filter
   type, and the N of "Showing N of M" is the number of such categories *)
C25_Original ==
  ListVisible =>
    /\ Range(filteredCategories) \subseteq Reachable
    /\ Len(filteredCategories) = Cardinality(Reachable)

---------------------------------------------------------------------------
(* Properties of the category detail page *)

(* what the page shows of its state: the error view of lines 171-177 *)
ErrorShown ==
  ~detailPage.loading /\ (detailPage.error # "" \/ detailPage.category = <<>>)

ShownSubCategories ==
  IF detailPage.category[1].isSubCategory THEN <<>> ELSE detailPage.subCategories

(* C26: once every fetchCategoryDetails call has resolved, the page shows an
   error, or the category of the current route id together with
   sub-categories that are children of that category *)
C26_Original ==
  detailPage.calls = <<>> =>
    \/ ErrorShown
    \/ /\ MatchesRouteId(detailPage.category[1], detailPage.id)
       /\ \A c \in Range(ShownSubCategories) :
            IsDetailChildOf(c, detailPage.category[1].id)

---------------------------------------------------------------------------
(* Properties of failures *)

FormState == <<showAddForm, formData, editingCategory>>

(* C27: the step in which a create/update fails, by a thrown failure or an
   envelope whose errorCode is not 0, leaves the form open, formData,
   editingCategory and categories as they are and puts the failure message
   in error; so does a submit that fails before it reaches the network; and
   while the request is in flight nothing but the user's own editing or
   leaving of the form changes the form, so that what the failure finds is
   what was submitted *)
C27_FailedSubmitKeepsForm ==
  [][/\ \A i \in Creates, o \in SubmitFailures :
          handleSubmitResolve(i, o)
          => /\ FormState' = FormState
             /\ categories' = categories
             /\ error' # ""
             /\ error' = IF makeRequest(o).kind = "throw"
                         THEN makeRequest(o).message
                         ELSE IF responseData(o).errorMessage # ""
                         THEN responseData(o).errorMessage
                         ELSE "Failed to create category"
     /\ (handleSubmit /\ ~isSubmitting')
          => /\ FormState' = FormState
             /\ categories' = categories
             /\ error' \in {UpdateNotAFunction, TrimOfUndefined}
     /\ (Creates # {} /\ FormState' # FormState)
          => \/ BackToCategories
             \/ handleAddCategory
             \/ \E f \in FormFields : handleInputChange(f, <<"a">>)
             \/ \E c \in Rows : handleEditCategory(c)]_vars

(* a create was rejected by the network: the form is open with what was
   typed and the banner holds the message *)
C27_Witness ==
  /\ showAddForm
  /\ ~isSubmitting
  /\ net = <<>>
  /\ editingCategory = <<>>
  /\ formData.categoryName = <<"a">>
  /\ formData.shortDescription = <<"a">>
  /\ error = NetworkErrorMessage
  /\ lastOutput = "Error creating category:"

Counts == <<totalCategories, parentCategoriesCount, subCategoriesCount>>

LoadFailed(o) ==
  \/ makeRequest(o).kind = "throw"
  \/ makeRequest(o).value.errorCode # 0
  \/ makeRequest(o).value.data = <<>>

(* C28: the step in which a load fails, by a thrown failure, an errorCode
   other than 0 or null data, leaves categories as it was, and with it the
   filtered list, the grouping and the three counts; a list that was shown
   before the load is shown again once no load is in flight *)
C28_FailedLoadKeepsList ==
  [][\A i \in LoadIdx, o \in ViewOutcomes :
       (loadCategoriesResolve(i, o) /\ LoadFailed(o))
         => /\ categories' = categories
            /\ filteredCategories' = filteredCategories
            /\ Grouping' = Grouping
            /\ Counts' = Counts
            /\ error' # ""
            /\ (categories # <<>> /\ ~showAddForm /\ Loads(net') = 0)
                 => ListVisible']_vars

(* a refresh of a loaded and searched list was answered with an error
   envelope: the list and the search result are still there *)
C28_Witness ==
  /\ ~loading
  /\ net = <<>>
  /\ error = "E"
  /\ categories = TwoFamilies
  /\ searchTerm = <<"b">>
  /\ Ids(filteredCategories) = <<Num(3), Num(4)>>
  /\ Counts = <<4, 2, 2>>

---------------------------------------------------------------------------
(* Properties of the submit button *)

(* C29: at most one create/update request is in flight; one in flight means
   isSubmitting, and while isSubmitting no handleSubmit can start; leaving
   the form with Back and opening it again with Add or Edit does not change
   isSubmitting *)
C29_OneCreateInFlight ==
  /\ [](/\ Cardinality(Creates) <= 1
        /\ Creates # {} => isSubmitting
        /\ isSubmitting => ~ENABLED handleSubmit)
  /\ [][(\/ BackToCategories
         \/ handleAddCategory
         \/ \E c \in Rows : handleEditCategory(c))
          => isSubmitting' = isSubmitting]_vars

(* a create is in flight, the user has left the form with Back and opened
   the edit form of a category: the form is complete and cannot be sent *)
C29_Witness ==
  /\ Cardinality(Creates) = 1
  /\ isSubmitting
  /\ showAddForm
  /\ editingCategory # <<>>
  /\ FormValid
  /\ Len(net) < MaxInFlight

---------------------------------------------------------------------------
(* Properties of the statistics cards *)

(* C30: in every state parentCategoriesCount + subCategoriesCount =
   totalCategories = the length of categories, each count being the number
   of records of its kind in the full list; and a step that changes the
   search text or the filter type changes none of the three *)
C30_CountsFromFullList ==
  /\ [](/\ parentCategoriesCount + subCategoriesCount = totalCategories
        /\ totalCategories = Len(categories)
        /\ parentCategoriesCount = Cardinality(ParentsOf(categories))
        /\ subCategoriesCount
             = Cardinality((1..Len(categories)) \ ParentsOf(categories)))
  /\ [][(searchTerm' # searchTerm \/ filterType' # filterType)
          => Counts' = Counts]_vars

(* the filter hides the sub-categories and the search one of the two
   parents, and the cards still count the four loaded categories *)
C30_Witness ==
  /\ ~loading
  /\ categories = TwoFamilies
  /\ searchTerm = <<"b">>
  /\ filterType = "parent"
  /\ Ids(filteredCategories) = <<Num(3)>>
  /\ totalCategories = 4
  /\ parentCategoriesCount = 2
  /\ subCategoriesCount = 2

====
